---- MODULE Spec2Model ----
(***************************************************************************)
(* tayframe: technical-analysis indicators over a list of OHLCV bars       *)
(* (tayframe/indicators.py) and the dataframe helpers append_column and    *)
(* clean (tayframe/dataframe.py).                                          *)
(*                                                                         *)
(* A dataframe is a sequence of records (Python: list of dicts).  Prices   *)
(* are integers; every value that went through round(x, 2) is kept as an   *)
(* integer number of hundredths, every unrounded float as an exact         *)
(* fraction <<numerator, denominator>>.  Python indices are 0-based, the   *)
(* sequences here 1-based: df[i] of the source is df[i + 1] here.          *)
(***************************************************************************)
EXTENDS Integers, Sequences, FiniteSets, TLC

VARIABLES df, op, args, err, ret, retIsNew

vars == <<df, op, args, err, ret, retIsNew>>

-----------------------------------------------------------------------------
(* Bounds of the model *)

MaxLen == 4
MaxGapLen == 2
MaxAtrLen == 3
MaxFreqLen == 32
MaxLag == 2
MaxPrice == 3
MaxCol == 3

-----------------------------------------------------------------------------
(* Python built-ins *)

Min(a, b) == IF a < b THEN a ELSE b
Max(a, b) == IF a > b THEN a ELSE b

\* range(a, b) as the sequence a, a+1, ..., b-1 (empty when b <= a)
range(a, b) == [j \in 1..Max(b - a, 0) |-> a + j - 1]

\* s[a:b] for 0 <= a: a copy of the elements at 0-based positions a..b-1,
\* both ends clamped to the list
PySlice(s, a, b) == SubSeq(s, a + 1, Min(b, Len(s)))

\* s[-k:] for k >= 0: the last k elements; -0 is 0, so s[-0:] is all of s
PyTail(s, k) ==
    IF k = 0 \/ k >= Len(s) THEN s ELSE SubSeq(s, Len(s) - k + 1, Len(s))

\* s[-1]
Last(s) == s[Len(s)]

None == "None"

NoError == "none"
IndexError == "IndexError"
ZeroDivisionError == "ZeroDivisionError"

\* the outcome of a call: a returned list, or an exception and no list
Ok(v) == [err |-> NoError, val |-> v]
Raise(e) == [err |-> e, val |-> <<>>]

-----------------------------------------------------------------------------
(* Float arithmetic, exact: a float is a reduced fraction <<n, d>>, d > 0 *)

RECURSIVE GCD(_, _)
GCD(a, b) == IF b = 0 THEN a ELSE GCD(b, a % b)

Abs(a) == IF a < 0 THEN -a ELSE a

Rat(n, d) ==
    LET s == IF d < 0 THEN -1 ELSE 1
        g == GCD(Abs(n), Abs(d))
    IN  <<(s * n) \div g, (s * d) \div g>>

FromInt(x) == <<x, 1>>
FromCents(c) == Rat(c, 100)

RAdd(a, b) == Rat(a[1] * b[2] + b[1] * a[2], a[2] * b[2])
RSub(a, b) == Rat(a[1] * b[2] - b[1] * a[2], a[2] * b[2])
RMul(a, b) ==
    LET g1 == GCD(Abs(a[1]), b[2])
        g2 == GCD(Abs(b[1]), a[2])
    IN  Rat((a[1] \div g1) * (b[1] \div g2), (a[2] \div g2) * (b[2] \div g1))
\* a / b for b # 0
RQuot(a, b) == RMul(a, Rat(b[2], b[1]))

\* round(x, 2), in hundredths: to the nearest hundredth.  An exact tie goes to
\* the even hundredth, as round() does for a float that holds the tie exactly;
\* where the float is a neighbour of the tie, Python may round the other way.
\* Ties arise only with a multiplier of 1/2 (a lag or signal period of 3).
Round2(x) ==
    LET n == 100 * x[1]
        q == n \div x[2]
        r == n - q * x[2]
    IN  IF 2 * r > x[2] THEN q + 1
        ELSE IF 2 * r < x[2] THEN q
        ELSE IF q % 2 = 0 THEN q ELSE q + 1

\* sum(s) / reduce(lambda a, b: a + b, s) over a sequence of fractions
RECURSIVE RSum(_)
RSum(s) == IF Len(s) = 0 THEN FromInt(0) ELSE RAdd(s[1], RSum(Tail(s)))

\* a float that is infinity or NaN, as an output value: beyond every finite
\* value the bounded inputs produce; round() leaves it as it is
NonFinite == 2 ^ 30

\* A float division whose divisor is a value of the data.  Python raises
\* ZeroDivisionError on a zero divisor (it has no quiet infinity or NaN).
FloatDivIEEE(a, b) ==
    IF b[1] = 0 THEN [k |-> "nonfinite"] ELSE [k |-> "num", x |-> RQuot(a, b)]

FloatDiv(a, b) ==
    IF b[1] = 0 THEN [k |-> "raise"] ELSE [k |-> "num", x |-> RQuot(a, b)]

\* round(q, 2) of a division's result
RoundQ(q) == IF q.k = "num" THEN Round2(q.x) ELSE NonFinite

-----------------------------------------------------------------------------
(* moving_avg, indicators.py:6-26 *)

\* _sma with the sum divided by len(values) - 1
_sma_offbyone(key, window) ==
    LET values == [j \in 1..Len(window) |-> FromInt(window[j][key])]
    IN  Round2(RQuot(RSum(values), FromInt(Len(values) - 1)))

_sma(key, window) ==
    LET values == [j \in 1..Len(window) |-> FromInt(window[j][key])]
    IN  Round2(RQuot(RSum(values), FromInt(Len(values))))

\* the window of output i, taken one bar short
ma_window_short(d, i, lag) == PySlice(d, i, i + lag)

ma_window(d, i, lag) == PySlice(d, i, i + lag + 1)

moving_avg(d, key, lag) ==
    LET rng == range(0, Len(d) - lag)
    IN  [j \in 1..Len(rng) |-> _sma(key, ma_window(d, rng[j], lag))]

-----------------------------------------------------------------------------
(* ema, indicators.py:29-52 *)

\* calc_ema reading the bar before the one the loop is at
calc_ema_prevbar(index, d, key, emas, mult) ==
    Round2(RAdd(RMul(RSub(FromInt(d[index][key]), FromCents(Last(emas))), mult),
                FromCents(Last(emas))))

calc_ema(index, d, key, emas, mult) ==
    Round2(RAdd(RMul(RSub(FromInt(d[index + 1][key]), FromCents(Last(emas))), mult),
                FromCents(Last(emas))))

\* the comprehension of lines 48-51: emas.append(...) for i in rng, in order
RECURSIVE ema_loop(_, _, _, _, _)
ema_loop(rng, d, key, emas, mult) ==
    IF Len(rng) = 0 THEN emas
    ELSE ema_loop(Tail(rng), d, key,
                  Append(emas, calc_ema(rng[1], d, key, emas, mult)), mult)

ema(d, key, lag) ==
    LET sma == moving_avg(d, key, lag)
    IN  IF Len(sma) = 0 THEN Raise(IndexError)
        ELSE LET avg == sma[1]
                 multiplier == Rat(2, lag + 1)
             IN  Ok(ema_loop(range(lag + 1, Len(d)), d, key, <<avg>>, multiplier))

-----------------------------------------------------------------------------
(* macd, indicators.py:55-93 *)

\* fast[i] for i in range(len(slow)): IndexError once fast is the shorter list
calc_macd_line(slow, fast) ==
    IF Len(fast) < Len(slow) THEN Raise(IndexError)
    ELSE Ok([j \in 1..Len(slow) |->
                Round2(RSub(FromCents(fast[j]), FromCents(slow[j])))])

calc_signal(index, line, signal, mult) ==
    LET next_sig == RAdd(RMul(RSub(FromCents(line[index + 1]),
                                   FromCents(Last(signal))), mult),
                         FromCents(Last(signal)))
    IN  Round2(next_sig)

\* the comprehension of lines 84-87
RECURSIVE signal_loop(_, _, _, _)
signal_loop(rng, line, sigema, mult) ==
    IF Len(rng) = 0 THEN sigema
    ELSE signal_loop(Tail(rng), line,
                     Append(sigema, calc_signal(rng[1], line, sigema, mult)), mult)

\* lines 88-93
macd_hist(macd_line, sigema) ==
    LET macd_final == PyTail(macd_line, Len(sigema))
    IN  [j \in 1..Len(sigema) |->
            Round2(RSub(FromCents(macd_final[j]), FromCents(sigema[j])))]

macd(d, slow, fast, signal) ==
    LET slowema == ema(d, "c", slow)
        fastfull == ema(d, "c", fast)
    IN  IF slowema.err # NoError THEN Raise(slowema.err)
        ELSE IF fastfull.err # NoError THEN Raise(fastfull.err)
        ELSE
          LET fastema == PyTail(fastfull.val, Len(slowema.val))
              line == calc_macd_line(slowema.val, fastema)
          IN  IF line.err # NoError THEN Raise(line.err)
              ELSE
                LET macd_line == line.val
                    multiplier == Rat(2, signal + 1)
                    sigema == signal_loop(range(signal + 1, Len(macd_line)),
                                          macd_line, <<macd_line[1]>>, multiplier)
                IN  Ok(macd_hist(macd_line, sigema))

-----------------------------------------------------------------------------
(* atr, indicators.py:96-128 *)

\* divisor of line 109-110: 1.0 when not normalizing, the bar's close otherwise
tr_divisor(window, normalize) ==
    IF normalize THEN FromInt(Last(window).c) ELSE FromInt(1)

_true_range(window, normalize) ==
    LET cur == window[Len(window)]
        prev == window[Len(window) - 1]
        tr1 == cur.h - cur.l
        tr2 == cur.h - prev.c
        tr3 == cur.l - prev.c
    IN  FloatDiv(FromInt(Max(tr1, Max(tr2, tr3))), tr_divisor(window, normalize))

\* _sma of atr (lines 117-119), over a window of true ranges
atr_sma(window) ==
    IF \E j \in 1..Len(window) : window[j].k # "num" THEN NonFinite
    ELSE Round2(RQuot(RSum([j \in 1..Len(window) |-> window[j].x]),
                      FromInt(Len(window))))

atr(d, lag, normalize) ==
    LET rng == range(0, Len(d) - 1)
        tr == [j \in 1..Len(rng) |->
                 _true_range(PySlice(d, rng[j], rng[j] + 2), normalize)]
    IN  IF \E j \in 1..Len(tr) : tr[j].k = "raise" THEN Raise(ZeroDivisionError)
        ELSE LET out == range(0, Len(tr) - lag)
             IN  Ok([j \in 1..Len(out) |->
                       atr_sma(PySlice(tr, out[j], out[j] + lag + 1))])

-----------------------------------------------------------------------------
(* gaps, indicators.py:131-144 *)

gaps(d) ==
    LET rng == range(1, Len(d))
    IN  [j \in 1..Len(rng) |->
           Round2(FromInt(d[rng[j] + 1].o - d[rng[j]].c))]

-----------------------------------------------------------------------------
(* rsi, indicators.py:147-193 *)

WilderKeep == 13
WilderSpan == 14

\* lines 165-168 and 178-181: avg.append(((avg[-1] * 13) + x) / 14.0) for x in xs
RECURSIVE wilder_loop(_, _)
wilder_loop(xs, avg) ==
    IF Len(xs) = 0 THEN avg
    ELSE wilder_loop(Tail(xs),
           Append(avg, RQuot(RAdd(RMul(Last(avg), FromInt(WilderKeep)),
                                  FromInt(xs[1])),
                             FromInt(WilderSpan))))

avg_gain(d, lag) ==
    LET rng == range(1, Len(d))
        gains == [j \in 1..Len(rng) |->
                    IF d[rng[j] + 1].c >= d[rng[j]].c
                    THEN d[rng[j] + 1].c - d[rng[j]].c ELSE 0]
        head == PySlice(gains, 0, lag)
        seed == RQuot(RSum([j \in 1..Len(head) |-> FromInt(head[j])]), FromInt(lag))
    IN  wilder_loop(PySlice(gains, lag, Len(gains)), <<seed>>)

avg_loss(d, lag) ==
    LET rng == range(1, Len(d))
        losses == [j \in 1..Len(rng) |->
                     IF d[rng[j] + 1].c < d[rng[j]].c
                     THEN Abs(d[rng[j] + 1].c - d[rng[j]].c) ELSE 0]
        head == PySlice(losses, 0, lag)
        seed == RQuot(RSum([j \in 1..Len(head) |-> FromInt(head[j])]), FromInt(lag))
    IN  wilder_loop(PySlice(losses, lag, Len(losses)), <<seed>>)

\* line 188: round(100 - (100 / (1 + rs)), 2) for rs = gains[i] / losses[i]
rsi_value(rs) ==
    IF rs.k # "num" THEN NonFinite
    ELSE Round2(RSub(FromInt(100),
                     RQuot(FromInt(100), RAdd(FromInt(1), rs.x))))

\* line 191 as an in-place trim of the list passed in (del df[:-k])
rsi_trim_inplace(d, k) == [local |-> PyTail(d, k), arg |-> PyTail(d, k)]

\* line 191: df = df[-1 * len(raw_rsi):] binds the local name to a copy of
\* the tail; the list the caller passed stays as it was
rsi_trim(d, k) == [local |-> PyTail(d, k), arg |-> d]

\* err, val: the outcome; arg: the caller's list after the call
rsi(d, lag) ==
    LET gains == avg_gain(d, lag)
        losses == avg_loss(d, lag)
        rs == [j \in 1..Len(gains) |-> FloatDiv(gains[j], losses[j])]
    IN  IF \E j \in 1..Len(rs) : rs[j].k = "raise"
        THEN [err |-> ZeroDivisionError, val |-> <<>>, arg |-> d]
        ELSE LET raw_rsi == [j \in 1..Len(rs) |-> rsi_value(rs[j])]
                 trimmed == rsi_trim(d, Len(raw_rsi))
             IN  [err |-> NoError,
                  val |-> [j \in 1..Len(trimmed.local) |-> raw_rsi[j]],
                  arg |-> trimmed.arg]

-----------------------------------------------------------------------------
(* percent_change, indicators.py:196-216 *)

_pc(window) ==
    LET today == window[Len(window)].c
        compare == window[1].c
        q == FloatDiv(FromInt(today - compare), FromInt(compare))
    IN  IF q.k = "num" THEN [k |-> "num", x |-> RMul(q.x, FromInt(100))] ELSE q

percent_change(d, lag) ==
    LET rng == range(0, Len(d) - lag)
        pcs == [j \in 1..Len(rng) |-> _pc(PySlice(d, rng[j], rng[j] + lag + 1))]
    IN  IF \E j \in 1..Len(pcs) : pcs[j].k = "raise" THEN Raise(ZeroDivisionError)
        ELSE Ok([j \in 1..Len(pcs) |-> RoundQ(pcs[j])])

-----------------------------------------------------------------------------
(* new_high, indicators.py:219-237 *)

\* max(window, key=lambda d: d['c'])['c']
MaxClose(window) ==
    CHOOSE m \in {window[j].c : j \in 1..Len(window)} :
        \A j \in 1..Len(window) : window[j].c <= m

\* _is_high comparing with the close before the last one
_is_high_prev(window) ==
    Len(window) = 1 \/ window[Len(window)].c > window[Len(window) - 1].c

_is_high(window) ==
    LET high == MaxClose(window)
    IN  window[Len(window)].c = high

new_high(d) ==
    LET rng == range(0, Len(d))
    IN  [j \in 1..Len(rng) |-> _is_high(PySlice(d, 0, rng[j] + 1))]

-----------------------------------------------------------------------------
(* frequency, indicators.py:240-267 *)

FreqWindow == 31
FreqTrim == 30

\* v.count(True) over the values of one key
RECURSIVE CountTrue(_)
CountTrue(v) ==
    IF Len(v) = 0 THEN 0
    ELSE (IF v[1] = TRUE THEN 1 ELSE 0) + CountTrue(Tail(v))

RECURSIVE SumInts(_)
SumInts(s) == IF Len(s) = 0 THEN 0 ELSE s[1] + SumInts(Tail(s))

_freq(window, keys) ==
    LET values == [k \in 1..Len(keys) |->
                      [j \in 1..Len(window) |-> window[j][keys[k]]]]
        frequencies == [k \in 1..Len(values) |-> CountTrue(values[k])]
    IN  SumInts(frequencies)

\* the window taken from the lag argument
freq_window_lag(d, i, lag) == PySlice(d, i, i + lag + 1)

freq_window(d, i, lag) == PySlice(d, i, i + FreqWindow)

frequency(d, keys, lag) ==
    LET rng == range(0, Len(d) - FreqTrim)
    IN  [j \in 1..Len(rng) |-> _freq(freq_window(d, rng[j], lag), keys)]

-----------------------------------------------------------------------------
(* append_column and clean, dataframe.py:34-61 *)

\* [None] * k: the empty list for k <= 0
NoneList(k) == [j \in 1..Max(k, 0) |-> None]

\* line 47
padded_col(d, col) == NoneList(Len(d) - Len(col)) \o col

\* {**row, **{col_name: v}}
DictMerge(row, col_name, v) ==
    [k \in DOMAIN row \cup {col_name} |-> IF k = col_name THEN v ELSE row[k]]

\* line 48: a new dict per row; the row of df is read, not written
merge_row(row, col_name, v) ==
    [new |-> DictMerge(row, col_name, v), old |-> row]

\* val: the returned list; arg: the caller's list after the call
append_column(d, col_name, col) ==
    LET padded == padded_col(d, col)
        rng == range(0, Len(d))
        rows == [j \in 1..Len(rng) |-> merge_row(d[rng[j] + 1], col_name, padded[rng[j] + 1])]
    IN  [err |-> NoError,
         val |-> [j \in 1..Len(rows) |-> rows[j].new],
         arg |-> [j \in 1..Len(rows) |-> rows[j].old]]

\* the names a column is appended under; a bar's own fields hold numbers and
\* booleans, so None in r.values() can only be the cell of an appended column
ColNames == {"x", "y"}

HasNone(r) == \E k \in DOMAIN r \cap ColNames : r[k] = None

clean(d) == SelectSeq(d, LAMBDA r : ~HasNone(r))

-----------------------------------------------------------------------------
(* The dataframes a caller holds *)

Prices == 0..MaxPrice

Bar(t, o, h, l, c, f, g) ==
    [t |-> t, o |-> o, h |-> h, l |-> l, c |-> c, v |-> 1, f |-> f, g |-> g]

Tuples(S, n) == UNION {[1..k -> S] : k \in 0..n}

\* bars that differ in their close
CloseSeries(n) ==
    {[i \in 1..Len(cs) |-> Bar(i - 1, 1, MaxPrice, 0, cs[i], FALSE, FALSE)] :
        cs \in Tuples(Prices, n)}

\* bars that differ in their open and close
GapSeries ==
    {[i \in 1..Len(p) |-> Bar(i - 1, p[i][1], MaxPrice, 0, p[i][2], FALSE, FALSE)] :
        p \in Tuples(Prices \X {0, 1}, MaxGapLen)}

\* bars that differ in their high, low and close
Ranges == {<<2, 1>>, <<3, 0>>}

AtrSeries ==
    {[i \in 1..Len(p) |-> Bar(i - 1, 1, p[i][1][1], p[i][1][2], p[i][2], FALSE, FALSE)] :
        p \in Tuples(Ranges \X {0, 1, 2}, MaxAtrLen)}

\* long series of equal prices with two boolean columns: f is true on the
\* first a bars, g on the last b bars
FlagSeries ==
    {[i \in 1..n |-> Bar(i - 1, 1, 1, 1, 1, i <= a, i > n - b)] :
        n \in (FreqWindow - 2)..MaxFreqLen, a \in 0..2, b \in 0..2}

\* a column of k distinct cells
Col(k) == [j \in 1..k |-> "v" \o ToString(j)]

\* frames that already carry a column x, as append_column returns them
ColumnFrames ==
    {append_column(s, "x", Col(k)).val :
        s \in CloseSeries(2), k \in 0..MaxCol}

Frames == CloseSeries(MaxLen) \cup GapSeries \cup AtrSeries \cup FlagSeries
            \cup ColumnFrames

Lags == 1..MaxLag
Keys == {"c", "o"}
FlagKeys == {<<"f">>, <<"f", "g">>}

-----------------------------------------------------------------------------
(* The caller: holds df, calls one function at a time, keeps what it got *)

Init ==
    /\ df \in Frames
    /\ op = "none"
    /\ args = <<>>
    /\ err = NoError
    /\ ret = <<>>
    /\ retIsNew = FALSE

\* The caller gets the outcome r of the call name(df, a).  Every return
\* statement of the two files is a list display, a comprehension or list(...),
\* so a call that returns hands back a list object of its own.
Returns(name, a, r) ==
    /\ op = "none"
    /\ op' = name
    /\ args' = a
    /\ err' = r.err
    /\ ret' = r.val
    /\ retIsNew' = (r.err = NoError)

CallMovingAvg ==
    \E key \in Keys, lag \in Lags :
        /\ Returns("moving_avg", [key |-> key, lag |-> lag],
                   Ok(moving_avg(df, key, lag)))
        /\ UNCHANGED df

CallEma ==
    \E key \in Keys, lag \in Lags :
        /\ Returns("ema", [key |-> key, lag |-> lag], ema(df, key, lag))
        /\ UNCHANGED df

CallMacd ==
    \E slow \in Lags, fast \in Lags, signal \in Lags :
        /\ Returns("macd", [slow |-> slow, fast |-> fast, signal |-> signal],
                   macd(df, slow, fast, signal))
        /\ UNCHANGED df

CallAtr ==
    \E lag \in Lags, normalize \in BOOLEAN :
        /\ Returns("atr", [lag |-> lag, normalize |-> normalize],
                   atr(df, lag, normalize))
        /\ UNCHANGED df

CallGaps ==
    /\ Returns("gaps", <<>>, Ok(gaps(df)))
    /\ UNCHANGED df

CallRsi ==
    \E lag \in Lags :
        LET r == rsi(df, lag)
        IN  /\ Returns("rsi", [lag |-> lag], r)
            /\ df' = r.arg

CallPercentChange ==
    \E lag \in Lags :
        /\ Returns("percent_change", [lag |-> lag], percent_change(df, lag))
        /\ UNCHANGED df

CallNewHigh ==
    /\ Returns("new_high", <<>>, Ok(new_high(df)))
    /\ UNCHANGED df

CallFrequency ==
    \E keys \in FlagKeys, lag \in Lags :
        /\ Returns("frequency", [keys |-> keys, lag |-> lag],
                   Ok(frequency(df, keys, lag)))
        /\ UNCHANGED df

CallAppendColumn ==
    \E col_name \in ColNames, k \in 0..MaxCol :
        LET r == append_column(df, col_name, Col(k))
        IN  /\ Returns("append_column", [col_name |-> col_name, col |-> Col(k)], r)
            /\ df' = r.arg

CallClean ==
    /\ Returns("clean", <<>>, Ok(clean(df)))
    /\ UNCHANGED df

\* the caller drops the result and is ready for the next call
Discard ==
    /\ op # "none"
    /\ op' = "none"
    /\ args' = <<>>
    /\ err' = NoError
    /\ ret' = <<>>
    /\ retIsNew' = FALSE
    /\ UNCHANGED df

Next ==
    \/ CallMovingAvg
    \/ CallEma
    \/ CallMacd
    \/ CallAtr
    \/ CallGaps
    \/ CallRsi
    \/ CallPercentChange
    \/ CallNewHigh
    \/ CallFrequency
    \/ CallAppendColumn
    \/ CallClean
    \/ Discard

Spec == Init /\ [][Next]_vars

-----------------------------------------------------------------------------
(* Properties *)

Closes(d) == [i \in 1..Len(d) |-> d[i].c]

\* the sum of key over the bars a..b (1-based, inclusive)
RECURSIVE SumKey(_, _, _, _)
SumKey(d, key, a, b) == IF a > b THEN 0 ELSE d[a][key] + SumKey(d, key, a + 1, b)

\* the mean of key over the bars a..b, rounded to 2 decimals, in hundredths
Mean2(d, key, a, b) == Round2(Rat(SumKey(d, key, a, b), b - a + 1))

\* C1: for n > L, moving_avg(S, key, L) returns n - L values; value k is the
\* mean, rounded to 2 decimals, of key over the input indices k..k+L, so the
\* last value is the mean over the last L+1 bars; closes 1,2,3 with L = 1
\* give [1.5, 2.5].
C1_MovingAvg ==
    (op = "moving_avg" /\ Len(df) > args.lag) =>
        /\ err = NoError
        /\ Len(ret) = Len(df) - args.lag
        /\ \A k \in 0..(Len(df) - args.lag - 1) :
              ret[k + 1] = Mean2(df, args.key, k + 1, k + args.lag + 1)
        /\ Last(ret) = Mean2(df, args.key, Len(df) - args.lag, Len(df))
        /\ (Closes(df) = <<1, 2, 3>> /\ args.key = "c" /\ args.lag = 1
              => ret = <<150, 250>>)

C1_Witness ==
    /\ op = "moving_avg"
    /\ Closes(df) = <<1, 2, 3>>
    /\ args.key = "c"
    /\ args.lag = 1
    /\ ret = <<150, 250>>

\* C2: when the series is shorter than the window an indicator needs (the
\* empty series included), the call returns an empty series: it does not
\* raise and emits no value computed from fewer bars than the window.
BarsNeeded ==
    CASE op = "moving_avg" -> args.lag + 1
      [] op = "ema" -> args.lag + 1
      [] op = "percent_change" -> args.lag + 1
      [] op = "rsi" -> args.lag + 1
      [] op = "atr" -> args.lag + 2
      [] op = "macd" -> Max(args.slow, args.fast) + 1
      [] op = "frequency" -> FreqWindow

C2_InsufficientDataEmpty ==
    (/\ op \in {"moving_avg", "ema", "macd", "atr", "rsi", "percent_change",
                "frequency"}
     /\ Len(df) < BarsNeeded)
        => (err = NoError /\ ret = <<>>)

\* C3: for n > L, ema(S, key, L) returns n - L values, ema[0] is
\* moving_avg(S, key, L)[0], and for k >= 1
\* ema[k] = round((S[L+k][key] - ema[k-1]) * 2/(L+1) + ema[k-1], 2):
\* output k belongs to input index L + k and each step starts from the
\* rounded previous value.
EmaStep(x, prev, lag) ==
    Round2(Rat((100 * x - prev) * 2 + prev * (lag + 1), 100 * (lag + 1)))

C3_Ema ==
    (op = "ema" /\ Len(df) > args.lag) =>
        /\ err = NoError
        /\ Len(ret) = Len(df) - args.lag
        /\ ret[1] = Mean2(df, args.key, 1, args.lag + 1)
        /\ ret[1] = moving_avg(df, args.key, args.lag)[1]
        /\ \A k \in 1..(Len(df) - args.lag - 1) :
              ret[k + 1] = EmaStep(df[args.lag + k + 1][args.key], ret[k], args.lag)

C3_Witness ==
    /\ op = "ema"
    /\ err = NoError
    /\ args.lag = 2
    /\ Len(ret) = 2
    /\ ret[1] % 100 # 0
    /\ ret[2] % 100 # 0
    /\ ret[2] # ret[1]

\* C4: the length of macd(S, slow, fast, signal) is
\* min(len(ema(S,'c',slow)), len(ema(S,'c',fast))) - signal.
C4_MacdLength ==
    (/\ op = "macd"
     /\ ema(df, "c", args.slow).err = NoError
     /\ ema(df, "c", args.fast).err = NoError)
        => /\ err = NoError
           /\ Len(ret) = Min(Len(ema(df, "c", args.slow).val),
                             Len(ema(df, "c", args.fast).val)) - args.signal

\* C5: percent_change with a window-start close of 0, rsi with an average
\* loss of 0 (as on a never-decreasing series) and atr(normalize=True) with
\* a close of 0 at an index >= 1 abort with ZeroDivisionError and return no
\* series; no returned output holds infinity or NaN; atr(normalize=False)
\* never fails.
NeverDecreasing(d) == \A i \in 1..(Len(d) - 1) : d[i].c <= d[i + 1].c

C5_ArithmeticErrors ==
    /\ op = "percent_change" =>
          (err = ZeroDivisionError <=>
              \E i \in 1..(Len(df) - args.lag) : df[i].c = 0)
    /\ op = "rsi" =>
          /\ err = ZeroDivisionError <=>
                \E i \in 1..Len(avg_loss(df, args.lag)) :
                    avg_loss(df, args.lag)[i][1] = 0
          /\ NeverDecreasing(df) => err = ZeroDivisionError
    /\ (op = "atr" /\ args.normalize) =>
          (err = ZeroDivisionError <=> \E i \in 2..Len(df) : df[i].c = 0)
    /\ (op = "atr" /\ ~args.normalize) => err = NoError
    /\ op \in {"percent_change", "rsi", "atr"} =>
          /\ err \in {NoError, ZeroDivisionError}
          /\ err = ZeroDivisionError => (ret = <<>> /\ ~retIsNew)
          /\ \A i \in 1..Len(ret) : ret[i] # NonFinite

C5_Witness ==
    /\ op = "rsi"
    /\ err = ZeroDivisionError
    /\ Len(df) > args.lag + 1
    /\ NeverDecreasing(df)
    /\ \E i \in 1..(Len(df) - 1) : df[i].c < df[i + 1].c

\* C6: new_high(S) has length n and new_high(S)[i] is true exactly when
\* S[i].c is the maximum close over 0..i (a tie counts): index 0 is true, a
\* strictly increasing series gives all true, a strictly decreasing one
\* false at every index >= 1.
C6_NewHigh ==
    op = "new_high" =>
        /\ err = NoError
        /\ Len(ret) = Len(df)
        /\ \A i \in 1..Len(df) :
              ret[i] = (\A j \in 1..i : df[j].c <= df[i].c)
        /\ Len(df) >= 1 => ret[1] = TRUE
        /\ (\A i \in 1..(Len(df) - 1) : df[i].c < df[i + 1].c)
              => \A i \in 1..Len(df) : ret[i] = TRUE
        /\ (\A i \in 1..(Len(df) - 1) : df[i].c > df[i + 1].c)
              => \A i \in 2..Len(df) : ret[i] = FALSE

C6_Witness ==
    /\ op = "new_high"
    /\ Len(df) >= 3
    /\ \E i \in 2..Len(df) : ret[i] = TRUE /\ df[i].c = df[i - 1].c
    /\ \E i \in 2..Len(df) : ret[i] = FALSE

\* C7: on a series whose closes are all equal, every element of the
\* histogram macd returns is 0.
Flat(d) == \A i \in 1..Len(d) : d[i].c = d[1].c

C7_FlatMacdZero ==
    (op = "macd" /\ Flat(df) /\ err = NoError) =>
        \A i \in 1..Len(ret) : ret[i] = 0

C7_Witness ==
    /\ op = "macd"
    /\ Flat(df)
    /\ err = NoError
    /\ Len(ret) >= 2
    /\ df[1].c # 0
    /\ args.slow # args.fast

\* C8: no call changes the list it is given: after any sequence of calls df
\* has the same bars in the same order with the same fields and values, also
\* when the call raises; a call that returns gives a newly built list.
C8_InputUnchanged ==
    [][/\ df' = df
       /\ (op' # "none" /\ err' = NoError) => retIsNew']_vars

C8_Witness ==
    /\ op = "rsi"
    /\ err = NoError
    /\ Len(ret) >= 1
    /\ Len(ret) < Len(df)

\* C9 as stated: percent_change(S, lag) has max(0, n - lag) values, gaps(S)
\* max(0, n - 1) values with gaps[i-1] = round(S[i].o - S[i-1].c, 2),
\* atr(S, lag) max(0, n - 1 - lag) values, frequency(S, keys, lag)
\* max(0, n - 30) values whatever lag is, each the count of true values of
\* the named keys over 31 bars.
RECURSIVE CountFlags(_, _, _, _)
CountFlags(d, keys, a, b) ==
    IF a > b THEN 0
    ELSE Cardinality({k \in 1..Len(keys) : d[a][keys[k]] = TRUE})
            + CountFlags(d, keys, a + 1, b)

C9_Rest ==
    /\ op = "gaps" =>
          /\ err = NoError
          /\ Len(ret) = Max(0, Len(df) - 1)
          /\ \A i \in 1..(Len(df) - 1) : ret[i] = 100 * (df[i + 1].o - df[i].c)
    /\ (op = "atr" /\ ~args.normalize) =>
          /\ err = NoError
          /\ Len(ret) = Max(0, Len(df) - 1 - args.lag)
    /\ op = "frequency" =>
          /\ err = NoError
          /\ Len(ret) = Max(0, Len(df) - 30)
          /\ \A i \in 1..(Len(df) - 30) :
                ret[i] = CountFlags(df, args.keys, i, i + 30)

C10_RightAligned ==
    (op = "append_column" /\ \A i \in 1..Len(df) : args.col_name \notin DOMAIN df[i])
        => /\ err = NoError
           /\ Len(ret) = Len(df)
           /\ \A i \in 1..Len(df) :
                 /\ DOMAIN ret[i] = DOMAIN df[i] \cup {args.col_name}
                 /\ \A k \in DOMAIN df[i] : ret[i][k] = df[i][k]
                 /\ ret[i][args.col_name] = None <=> i <= Len(df) - Len(args.col)
                 /\ i > Len(df) - Len(args.col) =>
                       ret[i][args.col_name] =
                           args.col[Len(args.col) - (Len(df) - i)]

====
